---- MODULE Spec2Model ----
(***************************************************************************)
(* wasmalloc: the driver program src/main.rs, which loads a WebAssembly    *)
(* allocator module (.wat), instantiates it and binds its exports, and the *)
(* exported operations the driver's call wrappers reach.                   *)
(*                                                                         *)
(* Spec          main() as written: argument check, setup, export lookup,  *)
(*               return (the scripted calls of lines 44-55 are comments).  *)
(* LiveSpec      Spec with weak fairness of the single sequential thread.  *)
(* SpecExerciser the call wrappers of lines 27-42 driven in any order      *)
(*               against the module instance.                              *)
(***************************************************************************)
EXTENDS Integers, Sequences, FiniteSets, TLC

VARIABLES
    pc,        \* position of main()
    argc,      \* args.len()
    log,       \* setup steps executed so far, each with its outcome
    exports,   \* the exports, by name, of the module the path argument names
    usage,     \* whether the usage line was printed
    exit,      \* outcome of the process
    pages,     \* page count of the instance's linear memory
    mem,       \* bytes of the linear memory (tracked addresses)
    live,      \* the allocator's live allocations, <<handle, size>>
    ncalls,    \* number of exported operations invoked (length of the call trace)
    last,      \* latest record of the call trace
    stored     \* <<a, v>> of successful stores not overwritten or invalidated since

vars == <<pc, argc, log, exports, usage, exit, pages, mem, live, ncalls, last, stored>>

(***************************************************************************)
(* Bounds of the model.                                                    *)
(***************************************************************************)
MaxArgs == 2
MaxDefects == 2
MaxCalls == 4

(***************************************************************************)
(* The module under test: its exports.                                     *)
(***************************************************************************)
OpNames == <<"alloc", "dealloc", "store", "load", "size", "grow">>

AbiNames == {"alloc", "dealloc", "realloc", "store", "load", "size", "grow"}

Sig(p, r) == [kind |-> "function", params |-> p, results |-> r]

AbiSig(name) ==
    CASE name = "alloc"   -> Sig(<<"i32">>, <<"i32">>)
      [] name = "dealloc" -> Sig(<<"i32">>, <<>>)
      [] name = "realloc" -> Sig(<<"i32", "i32">>, <<"i32">>)
      [] name = "store"   -> Sig(<<"i32", "i32">>, <<>>)
      [] name = "load"    -> Sig(<<"i32">>, <<"i32">>)
      [] name = "size"    -> Sig(<<>>, <<"i32">>)
      [] name = "grow"    -> Sig(<<"i32">>, <<"i32">>)

Absent == [kind |-> "absent", params |-> <<>>, results |-> <<>>]

MemoryExport == [kind |-> "memory", params |-> <<>>, results |-> <<>>]

ExportChoices ==
    { Absent, MemoryExport,
      Sig(<<>>, <<"i32">>), Sig(<<"i32">>, <<"i32">>), Sig(<<"i32">>, <<>>),
      Sig(<<"i32", "i32">>, <<>>), Sig(<<"i32", "i32">>, <<"i32">>),
      Sig(<<"i64">>, <<"i32">>) }

\* A module's exports deviate from the ABI table in at most MaxDefects names.
Deviations == { S \in SUBSET AbiNames : Cardinality(S) <= MaxDefects }

\* The exports of the module that exports f[n] for the names n of D and
\* follows the ABI table in the others.
ModuleWith(D, f) == [n \in AbiNames |-> IF n \in D THEN f[n] ELSE AbiSig(n)]

NoModule == [n \in AbiNames |-> Absent]

(***************************************************************************)
(* The instance's linear memory and the exported operations.               *)
(***************************************************************************)
PageSize == 65536
AccessBytes == 4
InitialPages == 1
MaxPages == 2
GrowFailure == -1

\* Addresses the driver passes to load and store on a memory of p pages: a
\* negative one, low words that overlap each other and every allocation, the
\* two addresses of line 55, and the words around the end of the memory.
Addrs(p) ==
    {-1, 0, 2, PageSize - 4, PageSize - 3}
        \cup { p * PageSize + d : d \in {-4, -3, -2, -1, 0} }

Values == {42, -2}

Deltas == {-1, 0, 1, 2}

Sizes == {1, 8}

Handles == {0, 4}

TrackedBytes ==
    0..11 \cup UNION { { a + k : k \in 0..(AccessBytes - 1) }
                       : a \in { x \in UNION { Addrs(p) : p \in 1..MaxPages } :
                                   x >= 0 /\ x + AccessBytes <= MaxPages * PageSize } }

ZeroMemory == [b \in TrackedBytes |-> 0]

Pow256(k) == CASE k = 0 -> 1 [] k = 1 -> 256 [] k = 2 -> 65536 [] k = 3 -> 16777216

\* Byte k of the little-endian two's complement encoding of the i32 v.
ByteOf(v, k) ==
    IF v >= 0 THEN (v \div Pow256(k)) % 256
              ELSE 255 - ((((-v) - 1) \div Pow256(k)) % 256)

\* The i32 held by the four bytes at a, little-endian.
WordAt(m, a) ==
    IF m[a + 3] >= 128
    THEN -(  (255 - m[a]) + (255 - m[a + 1]) * 256 + (255 - m[a + 2]) * 65536
           + (255 - m[a + 3]) * 16777216) - 1
    ELSE m[a] + m[a + 1] * 256 + m[a + 2] * 65536 + m[a + 3] * 16777216

WriteWord(m, a, v) ==
    [b \in TrackedBytes |->
        IF b >= a /\ b < a + AccessBytes THEN ByteOf(v, b - a) ELSE m[b]]

\* Variant: the bound compared with < instead of <=.
InBounds_strict(a, p) == a >= 0 /\ a + AccessBytes < p * PageSize

\* A 4-byte access at a lies inside a memory of p pages; a negative i32 is an
\* unsigned address beyond every memory.
InBounds(a, p) == a >= 0 /\ a + AccessBytes <= p * PageSize

Overlaps(a, lo, n) == a < lo + n /\ lo < a + AccessBytes

Disjoint(h1, s1, h2, s2) == h1 + s1 <= h2 \/ h2 + s2 <= h1

Outcome(f, v, p, m, l) == [fault |-> f, val |-> v, pages |-> p, mem |-> m, live |-> l]

Fault == Outcome(TRUE, 0, pages, mem, live)

Returns(v) == Outcome(FALSE, v, pages, mem, live)

ModSize == { Returns(pages) }

ModGrow(n) ==
    IF n >= 0 /\ pages + n <= MaxPages
    THEN { Outcome(FALSE, pages, pages + n, mem, live) }
    ELSE { Returns(GrowFailure) }

ModLoad(a) ==
    IF InBounds(a, pages) THEN { Returns(WordAt(mem, a)) } ELSE { Fault }

ModStore(a, v) ==
    IF InBounds(a, pages)
    THEN { Outcome(FALSE, 0, pages, WriteWord(mem, a, v), live) }
    ELSE { Fault }

\* Placements of s bytes that alias no allocation of l.
Placements(s, l) ==
    { h \in Handles : h + s <= pages * PageSize
                      /\ \A r \in l : Disjoint(h, s, r[1], r[2]) }

ModAlloc(s) ==
    IF Placements(s, live) = {} THEN { Fault }
    ELSE { Outcome(FALSE, h, pages, mem, live \cup {<<h, s>>}) : h \in Placements(s, live) }

\* Releasing a live handle may leave the allocator's bookkeeping (here the
\* block's size) in the first word of a block that holds one; releasing
\* anything else is the allocator's choice of fault or no-op.
ModDealloc(h) ==
    IF \E r \in live : r[1] = h
    THEN LET r == CHOOSE x \in live : x[1] = h
         IN  { Outcome(FALSE, 0, pages, mem, live \ {r}) }
             \cup IF r[2] >= AccessBytes
                  THEN { Outcome(FALSE, 0, pages, WriteWord(mem, h, r[2]), live \ {r}) }
                  ELSE {}
    ELSE { Fault, Returns(0) }

CopyBytes(m, from, to, n) ==
    [b \in TrackedBytes |-> IF b >= to /\ b < to + n THEN m[from + (b - to)] ELSE m[b]]

Min(x, y) == IF x <= y THEN x ELSE y

ModRealloc(h, s2) ==
    IF \E r \in live : r[1] = h
    THEN LET r == CHOOSE x \in live : x[1] = h
             l == live \ {r}
         IN  IF Placements(s2, l) = {} THEN { Fault }
             ELSE { Outcome(FALSE, h2, pages, CopyBytes(mem, h, h2, Min(r[2], s2)),
                            l \cup {<<h2, s2>>}) : h2 \in Placements(s2, l) }
    ELSE { Fault }

\* Func::call on the export `name`: the argument count is checked against the
\* export's signature before the function runs.
Outcomes(name, args) ==
    IF exports[name].kind # "function" \/ Len(args) # Len(exports[name].params)
    THEN { Fault }
    ELSE CASE name = "size"    -> ModSize
           [] name = "grow"    -> ModGrow(args[1])
           [] name = "load"    -> ModLoad(args[1])
           [] name = "store"   -> ModStore(args[1], args[2])
           [] name = "alloc"   -> ModAlloc(args[1])
           [] name = "dealloc" -> ModDealloc(args[1])
           [] name = "realloc" -> ModRealloc(args[1], args[2])

(***************************************************************************)
(* main(): argument check, setup, export lookup.                           *)
(***************************************************************************)
NoCall == [op |-> "", args |-> <<>>, fault |-> FALSE, val |-> 0]

Entry(step, name, ok) == [step |-> step, name |-> name, ok |-> ok]

Init ==
    /\ pc = "args"
    /\ argc \in 0..MaxArgs
    /\ log = <<>>
    /\ IF argc < 2
       THEN exports = NoModule
       ELSE \E D \in Deviations : \E f \in [D -> ExportChoices] : exports = ModuleWith(D, f)
    /\ usage = FALSE
    /\ exit = "running"
    /\ pages = 0
    /\ mem = ZeroMemory
    /\ live = {}
    /\ ncalls = 0
    /\ last = NoCall
    /\ stored = {}

\* Variant: the argument count compared with 1 instead of 2.
CheckArgs_one ==
    /\ pc = "args"
    /\ IF argc < 1
       THEN usage' = TRUE /\ exit' = "ok" /\ pc' = "exit"
       ELSE usage' = usage /\ exit' = exit /\ pc' = "read"
    /\ UNCHANGED <<argc, log, exports, pages, mem, live, ncalls, last, stored>>

\* if args.len() < 2 { println!(...); return Ok(()) }
CheckArgs ==
    /\ pc = "args"
    /\ IF argc < 2
       THEN usage' = TRUE /\ exit' = "ok" /\ pc' = "exit"
       ELSE usage' = usage /\ exit' = exit /\ pc' = "read"
    /\ UNCHANGED <<argc, log, exports, pages, mem, live, ncalls, last, stored>>

\* Variant: the Err of a setup call dropped instead of returned.
Try_dropped(step, ok, next) ==
    /\ log' = Append(log, Entry(step, "", ok))
    /\ pc' = next
    /\ exit' = exit

\* A setup call followed by `?`: an Err returns from main.
Try(step, ok, next) ==
    /\ log' = Append(log, Entry(step, "", ok))
    /\ IF ok THEN pc' = next /\ exit' = exit
             ELSE pc' = "exit" /\ exit' = "err"

ReadFile ==
    /\ pc = "read"
    /\ \E ok \in BOOLEAN : Try("read", ok, "wat2wasm")
    /\ UNCHANGED <<argc, exports, usage, pages, mem, live, ncalls, last, stored>>

Wat2Wasm ==
    /\ pc = "wat2wasm"
    /\ \E ok \in BOOLEAN : Try("wat2wasm", ok, "compile")
    /\ UNCHANGED <<argc, exports, usage, pages, mem, live, ncalls, last, stored>>

ModuleNew ==
    /\ pc = "compile"
    /\ \E ok \in BOOLEAN : Try("compile", ok, "instantiate")
    /\ UNCHANGED <<argc, exports, usage, pages, mem, live, ncalls, last, stored>>

InstanceNew ==
    /\ pc = "instantiate"
    /\ \E ok \in BOOLEAN :
          /\ Try("instantiate", ok, "get_alloc")
          /\ pages' = IF ok THEN InitialPages ELSE pages
    /\ UNCHANGED <<argc, exports, usage, mem, live, ncalls, last, stored>>

\* Variant: a missing export taken for a function.
get_function_lenient(name) ==
    IF exports[name].kind = "memory" THEN "IncompatibleType" ELSE "Ok"

\* Variant: a typed lookup, which also compares the signature with the ABI table.
get_function_typed(name) ==
    IF exports[name].kind = "absent" THEN "Missing"
    ELSE IF exports[name] # AbiSig(name) THEN "IncompatibleType"
    ELSE "Ok"

\* instance.exports.get_function(name)
get_function(name) ==
    IF exports[name].kind = "absent" THEN "Missing"
    ELSE IF exports[name].kind # "function" THEN "IncompatibleType"
    ELSE "Ok"

\* get_function(name).unwrap(): anything but Ok panics.
GetFunction(here, name, next) ==
    /\ pc = here
    /\ log' = Append(log, Entry("get_function", name, get_function(name) = "Ok"))
    /\ IF get_function(name) = "Ok"
       THEN pc' = next /\ exit' = exit
       ELSE pc' = "exit" /\ exit' = "panic"
    /\ UNCHANGED <<argc, exports, usage, pages, mem, live, ncalls, last, stored>>

GetAlloc == GetFunction("get_alloc", "alloc", "get_dealloc")

GetDealloc == GetFunction("get_dealloc", "dealloc", "get_store")

GetStore == GetFunction("get_store", "store", "get_load")

GetLoad == GetFunction("get_load", "load", "get_size")

GetSize == GetFunction("get_size", "size", "get_grow")

GetGrow == GetFunction("get_grow", "grow", "script")

\* Variant: line 45 not a comment, size() called before returning.
Return_line45 ==
    /\ pc = "script"
    /\ pc' = "exit"
    /\ exit' = "ok"
    /\ ncalls' = ncalls + 1
    /\ last' = [op |-> "size", args |-> <<>>, fault |-> FALSE, val |-> pages]
    /\ UNCHANGED <<argc, log, exports, usage, pages, mem, live, stored>>

\* Lines 44-57: every scripted call is a comment; main returns Ok(()).
Return ==
    /\ pc = "script"
    /\ pc' = "exit"
    /\ exit' = "ok"
    /\ UNCHANGED <<argc, log, exports, usage, pages, mem, live, ncalls, last, stored>>

Next ==
    \/ CheckArgs
    \/ ReadFile
    \/ Wat2Wasm
    \/ ModuleNew
    \/ InstanceNew
    \/ GetAlloc
    \/ GetDealloc
    \/ GetStore
    \/ GetLoad
    \/ GetSize
    \/ GetGrow
    \/ Return

Spec == Init /\ [][Next]_vars

LiveSpec == Spec /\ WF_vars(Next)

\* The process exit code of each outcome.
ExitCode ==
    CASE exit = "ok" -> 0 [] exit = "err" -> 1 [] exit = "panic" -> 101 [] OTHER -> -1

\* The export names looked up so far, in order.
Resolved == [i \in 1..Len(SelectSeq(log, LAMBDA e : e.step = "get_function"))
                |-> SelectSeq(log, LAMBDA e : e.step = "get_function")[i].name]

Instantiated == \E i \in 1..Len(log) : log[i].step = "instantiate" /\ log[i].ok

(***************************************************************************)
(* The call wrappers of lines 26-42 and the calls made through them.       *)
(***************************************************************************)
\* Variants: a wrapper bound to another export's name.
alloc_func_grow == "grow"

load_func_store == "store"

grow_func_size == "size"

alloc_func == "alloc"

dealloc_func == "dealloc"

realloc_func == "realloc"

store_func == "store"

load_func == "load"

size_func == "size"

grow_func == "grow"

Bound(f, args) == [name |-> f, args |-> args]

alloc(s) == Bound(alloc_func, <<s>>)

dealloc(a) == Bound(dealloc_func, <<a>>)

realloc(a, s) == Bound(realloc_func, <<a, s>>)

\* Variant: the arguments of store passed in the other order.
store_swapped(a, v) == Bound(store_func, <<v, a>>)

store(a, v) == Bound(store_func, <<a, v>>)

load(a) == Bound(load_func, <<a>>)

size == Bound(size_func, <<>>)

grow(s) == Bound(grow_func, <<s>>)

\* What the driver observes of a call: the Result of Func::call.
Observed(call) == { [fault |-> o.fault, val |-> o.val] : o \in Outcomes(call.name, call.args) }

\* The stores of `stored` that the call op(args), with outcome o, neither
\* overwrites nor invalidates: a store drops the stores whose bytes it
\* overlaps, a dealloc or realloc those inside the region it releases or returns.
Surviving(op, args, o) ==
    IF o.fault THEN stored
    ELSE CASE op = "store" ->
                { e \in stored : ~Overlaps(e[1], args[1], AccessBytes) } \cup {<<args[1], args[2]>>}
           [] op = "dealloc" ->
                { e \in stored : \A r \in live : r[1] = args[1] => ~Overlaps(e[1], r[1], r[2]) }
           [] op = "realloc" ->
                { e \in stored : /\ \A r \in live : r[1] = args[1] => ~Overlaps(e[1], r[1], r[2])
                                 /\ ~Overlaps(e[1], o.val, args[2]) }
           [] OTHER -> stored

\* One scripted line `op(args)?`: the call is made and recorded; a fault
\* returns from main with the error.
Call(op, args, call) ==
    /\ pc = "script"
    /\ ncalls < MaxCalls
    /\ \E o \in Outcomes(call.name, call.args) :
          /\ pages' = o.pages
          /\ mem' = o.mem
          /\ live' = o.live
          /\ last' = [op |-> op, args |-> args, fault |-> o.fault, val |-> o.val]
          /\ stored' = Surviving(op, args, o)
          /\ IF o.fault THEN pc' = "exit" /\ exit' = "err"
                        ELSE pc' = pc /\ exit' = exit
    /\ ncalls' = ncalls + 1
    /\ UNCHANGED <<argc, log, exports, usage>>

CallAlloc == \E s \in Sizes : Call("alloc", <<s>>, alloc(s))

CallDealloc == \E h \in Handles : Call("dealloc", <<h>>, dealloc(h))

CallRealloc == \E h \in Handles, s \in Sizes : Call("realloc", <<h, s>>, realloc(h, s))

CallStore == \E a \in Addrs(pages), v \in Values : Call("store", <<a, v>>, store(a, v))

CallLoad == \E a \in Addrs(pages) : Call("load", <<a>>, load(a))

CallSize == Call("size", <<>>, size)

CallGrow == \E n \in Deltas : Call("grow", <<n>>, grow(n))

\* The state main() is in after binding the exports of a module that
\* implements the ABI table.
InitExerciser ==
    /\ pc = "script"
    /\ argc = 2
    /\ log = <<Entry("read", "", TRUE), Entry("wat2wasm", "", TRUE),
               Entry("compile", "", TRUE), Entry("instantiate", "", TRUE)>>
             \o [i \in 1..Len(OpNames) |-> Entry("get_function", OpNames[i], TRUE)]
    /\ exports = [n \in AbiNames |-> AbiSig(n)]
    /\ usage = FALSE
    /\ exit = "running"
    /\ pages = InitialPages
    /\ mem = ZeroMemory
    /\ live = {}
    /\ ncalls = 0
    /\ last = NoCall
    /\ stored = {}

NextExerciser ==
    \/ CallAlloc
    \/ CallDealloc
    \/ CallRealloc
    \/ CallStore
    \/ CallLoad
    \/ CallSize
    \/ CallGrow
    \/ Return

SpecExerciser == InitExerciser /\ [][NextExerciser]_vars

(***************************************************************************)
(* Properties of main() as written (Spec, LiveSpec).                       *)
(***************************************************************************)
Range(q) == { q[i] : i \in 1..Len(q) }

\* The run got past the resolver phase: the last lookup, of grow, succeeded.
PastResolver == \E i \in 1..Len(log) : log[i] = Entry("get_function", "grow", TRUE)

SigMismatch(n) == exports[n].kind = "function" /\ exports[n] # AbiSig(n)

\* C1 as stated: in every run that gets past the resolver phase each of the
\* seven operations of the ABI table, realloc included, has been looked up
\* and none of them is missing from the module.
C1_AllSevenBound ==
    PastResolver =>
        \A n \in AbiNames : n \in Range(Resolved) /\ exports[n].kind # "absent"

\* C1 (amended): the resolver looks up six operations, alloc, dealloc, store,
\* load, size and grow, once each and in that order; a run that gets past the
\* resolver phase has looked up exactly these and its module lacks none of
\* them; realloc is never looked up.
C1_SixBound ==
    /\ "realloc" \notin Range(Resolved)
    /\ PastResolver =>
          /\ Resolved = OpNames
          /\ \A n \in Range(OpNames) : exports[n].kind # "absent"

\* A module without realloc gets past the resolver phase.
C1_Witness == PastResolver /\ exports["realloc"].kind = "absent"

\* C2: a failed setup step (read, translate, compile, instantiate, export
\* lookup) is the last step of the run: the run is over with a non-success
\* outcome and a non-zero exit code, no step follows the failed one, and no
\* exported operation has been invoked.
C2_SetupFailureIsFatal ==
    \A i \in 1..Len(log) :
        ~log[i].ok =>
            /\ i = Len(log)
            /\ pc = "exit"
            /\ exit \in {"err", "panic"}
            /\ ExitCode # 0
            /\ ncalls = 0

\* A lookup failed on an instantiated module, after four successful steps.
C2_Witness ==
    /\ Len(log) > 4
    /\ log[Len(log)].step = "get_function"
    /\ ~log[Len(log)].ok

\* C3 as stated: a module exporting one of the looked-up names as a function
\* whose signature differs from the ABI table never gets past resolution and
\* its run ends in failure.
C3_MismatchRejected ==
    (Instantiated /\ \E n \in Range(OpNames) : SigMismatch(n)) =>
        /\ pc # "script"
        /\ pc = "exit" => exit \in {"err", "panic"}

\* C3 (amended): resolution rejects exactly the modules in which one of the
\* six looked-up names is not exported as a function: such a run panics, and
\* a run whose six looked-up exports are all functions ends successfully,
\* whatever their signatures; in neither is an exported operation called.
C3_OnlyNonFunctionsRejected ==
    (Instantiated /\ pc = "exit") =>
        /\ exit = "panic" <=> \E n \in Range(OpNames) : exports[n].kind # "function"
        /\ exit = "ok" <=> \A n \in Range(OpNames) : exports[n].kind = "function"
        /\ ncalls = 0

\* A module with a mismatching signature among the six ran to success.
C3_Witness ==
    /\ pc = "exit"
    /\ exit = "ok"
    /\ \E n \in Range(OpNames) : SigMismatch(n)

\* C4: started without a module path, the program reads, translates,
\* compiles, instantiates, resolves and calls nothing, and it ends by
\* printing the usage line with exit code 0.
C4_NoArgumentIsSuccess ==
    argc < 2 =>
        /\ pc \in {"args", "exit"}
        /\ log = <<>>
        /\ pages = 0
        /\ ncalls = 0
        /\ pc = "exit" => usage /\ exit = "ok" /\ ExitCode = 0

C4_Witness == argc < 2 /\ pc = "exit" /\ usage

\* C10: no run of main() as written invokes an exported operation; a run that
\* instantiated its module exits with the memory as instantiated (1 page, no
\* byte stored); if the six looked-up names are exported as functions they
\* are looked up once each in the order alloc, dealloc, store, load, size,
\* grow and the outcome is success; and every run terminates.
C10_LooksUpSixCallsNone ==
    /\ [](/\ ncalls = 0
          /\ last = NoCall
          /\ (Instantiated /\ pc = "exit") =>
                /\ pages = 1
                /\ mem = ZeroMemory
                /\ stored = {}
                /\ (\A n \in Range(OpNames) : exports[n].kind = "function") =>
                      /\ Resolved = OpNames
                      /\ exit = "ok")
    /\ <>(pc = "exit")

C10_Witness ==
    /\ pc = "exit"
    /\ exit = "ok"
    /\ Resolved = OpNames
    /\ \A n \in AbiNames : exports[n] = AbiSig(n)

(***************************************************************************)
(* Properties of the exported operations as the wrappers reach them        *)
(* (SpecExerciser).                                                        *)
(***************************************************************************)
Called(op) == ncalls > 0 /\ last.op = op

EndOfMemory == pages * PageSize

\* C5: a call grow(n) with n >= 0 made at page count p does not fault and
\* either returns p, after which size() returns p + n, or returns the failure
\* sentinel, after which size() returns p; grow(1) on the memory as
\* instantiated returns 1 and size() then returns 2.
C5_GrowAllOrNothing ==
    [][ (ncalls' = ncalls + 1 /\ last'.op = "grow" /\ last'.args[1] >= 0) =>
          /\ ~last'.fault
          /\ \/ /\ last'.val = pages
                /\ Observed(size)' = {[fault |-> FALSE, val |-> pages + last'.args[1]]}
             \/ /\ last'.val = GrowFailure
                /\ Observed(size)' = {[fault |-> FALSE, val |-> pages]}
          /\ (ncalls = 0 /\ last'.args[1] = 1) =>
                /\ last'.val = 1
                /\ Observed(size)' = {[fault |-> FALSE, val |-> 2]} ]_vars

\* grow(1) succeeded on the one-page memory.
C5_Witness == Called("grow") /\ last.args = <<1>> /\ last.val = 1 /\ pages = 2

\* C6: size() reports 1 on the memory as instantiated, and from one state to
\* the next the value size() reports never decreases and changes only in a
\* step that is a call of grow.
C6_PagesMonotonic ==
    /\ Observed(size) = {[fault |-> FALSE, val |-> 1]}
    /\ [][ \A x \in Observed(size), y \in Observed(size)' :
              /\ ~x.fault /\ ~y.fault
              /\ y.val >= x.val
              /\ y.val # x.val => (last'.op = "grow" /\ ncalls' = ncalls + 1) ]_vars

\* The memory has grown and calls other than grow have followed.
C6_Witness == pages = 2 /\ ncalls >= 3 /\ last.op \in {"alloc", "dealloc", "realloc", "store"}

C8_LoadIsFourBytes ==
    (Called("load") /\ last.args[1] >= 0) =>
        /\ ~last.fault <=> last.args[1] + 4 <= pages * 65536
        /\ (pages = 1 /\ last.args[1] = 65532) => ~last.fault
        /\ (pages = 1 /\ last.args[1] \in {65533, 65534, 65535}) => last.fault

\* load(65533) faulted on the one-page memory.
C8_Witness == Called("load") /\ pages = 1 /\ last.args = <<65533>> /\ last.fault

\* C9: a load at the address of a successful store returns the value stored,
\* whatever size, grow, load and alloc calls and whatever other stores,
\* deallocs and reallocs came in between, as long as no later store
\* overlapped its four bytes and no dealloc or realloc released or returned a
\* region holding them.
C9_StoreLoadRoundTrip ==
    pc = "script" =>
        \A e \in stored : Observed(load(e[1])) = {[fault |-> FALSE, val |-> e[2]]}

\* A load returned a value stored at least two calls ago, a grow in between.
C9_Witness ==
    /\ Called("load")
    /\ ~last.fault
    /\ <<last.args[1], last.val>> \in stored
    /\ pages = 2
    /\ ncalls >= 3

====
